---- MODULE Spec2Model ----
(***************************************************************************)
(* kobo-highlights-exporter: the outline normalizer (strip_suffix,         *)
(* extract_depth, query_toc), the highlight assignment (assign_highlights) *)
(* and the renderer (format_highlight, generate_markdown) of src/main.rs.  *)
(*                                                                         *)
(* A Rust String is a sequence of one-character strings.  A u32 is the     *)
(* pair <<hi, lo>> of its two 16-bit halves, so that the whole range       *)
(* 0 .. 2^32-1 and its overflow are exact.  An Option is a sequence of     *)
(* length 0 (None) or 1 (Some(x)).  Positions in a Vec are 1-based here    *)
(* (position p of the model is index p-1 of the code).                     *)
(***************************************************************************)
EXTENDS Integers, Sequences, FiniteSets, TLC

VARIABLES
    rows,         \* query_toc: the (ContentID, Title) rows, in VolumeIndex order
    book,         \* the Book handed to generate_markdown
    highlights,   \* the Highlight slice handed to generate_markdown
    toc,          \* Vec<TocEntry> built by query_toc
    assigned,     \* generate_markdown: HashMap<usize, Vec<&Highlight>>
    uncategorized,\* generate_markdown: Vec<&Highlight>
    heading_needed,\* generate_markdown: HashSet<usize>
    md,           \* generate_markdown: the String under construction, one element per push
    pc            \* where the run is

vars == <<rows, book, highlights, toc, assigned, uncategorized, heading_needed, md, pc>>

----------------------------------------------------------------------------
\* Bounds of the model.

\* longest outline (number of TOC rows) of a rendered book
MaxToc == 3
\* longest highlight list of a rendered book
MaxHl == 2
\* longest prefix of a generated identifier in front of its tail
MaxPrefixLen == 2

----------------------------------------------------------------------------
\* Option<T>

None == <<>>
Some(x) == <<x>>
is_some(o) == Len(o) = 1
unwrap(o) == o[1]
unwrap_or(o, d) == IF is_some(o) THEN o[1] ELSE d

----------------------------------------------------------------------------
\* u32

\* 2^16: a u32 is hi * Base + lo with hi, lo in 0 .. Base-1
Base == 65536

U32(n) == <<n \div Base, n % Base>>
U32Max == <<Base - 1, Base - 1>>
U32Lt(a, b) == a[1] < b[1] \/ (a[1] = b[1] /\ a[2] < b[2])
U32Le(a, b) == a = b \/ U32Lt(a, b)

\* v * 10 + d in u32, as checked_mul(10) followed by checked_add(d): None on overflow
checked_mul10_add(v, d) ==
    LET lo == v[2] * 10 + d
        hi == v[1] * 10 + (lo \div Base)
    IN  IF hi >= Base THEN None ELSE Some(<<hi, lo % Base>>)

\* v + 1 in u32, wrapping
wrapping_add1(v) ==
    IF v[2] + 1 < Base THEN <<v[1], v[2] + 1>>
    ELSE IF v[1] + 1 < Base THEN <<v[1] + 1, 0>>
    ELSE <<0, 0>>

\* v as usize, for the values the model can hold as an integer
as_usize(v) == v[1] * Base + v[2]

----------------------------------------------------------------------------
\* str

AsciiDigits == {"0", "1", "2", "3", "4", "5", "6", "7", "8", "9"}
is_ascii_digit(c) == c \in AsciiDigits

to_digit(c) ==
    CASE c = "0" -> 0 [] c = "1" -> 1 [] c = "2" -> 2 [] c = "3" -> 3 [] c = "4" -> 4
      [] c = "5" -> 5 [] c = "6" -> 6 [] c = "7" -> 7 [] c = "8" -> 8 [] c = "9" -> 9

\* s.rfind(c): the position of the last c in s
rfind(s, c) ==
    LET hits == {p \in 1..Len(s) : s[p] = c}
    IN  IF hits = {} THEN None ELSE Some(CHOOSE p \in hits : \A q \in hits : q <= p)

\* s.find(c): the position of the first c in s
find(s, c) ==
    LET hits == {p \in 1..Len(s) : s[p] = c}
    IN  IF hits = {} THEN None ELSE Some(CHOOSE p \in hits : \A q \in hits : p <= q)

\* s.chars().all(is_ascii_digit)
all_ascii_digit(s) == \A p \in 1..Len(s) : is_ascii_digit(s[p])

\* <u32 as FromStr>::from_str on a string of ASCII digits: Err (None) when empty or
\* when the value does not fit in 32 bits
RECURSIVE parse_from(_, _, _)
parse_from(s, p, acc) ==
    IF p > Len(s) THEN Some(acc)
    ELSE LET next == checked_mul10_add(acc, to_digit(s[p]))
         IN  IF is_some(next) THEN parse_from(s, p + 1, unwrap(next)) ELSE None

parse_u32(s) == IF s = <<>> THEN None ELSE parse_from(s, 1, U32(0))

\* "x".repeat(n)
repeat(c, n) == [p \in 1..n |-> c]

----------------------------------------------------------------------------
\* Identifier normalizer

strip_suffix_first_dash(content_id) ==
    LET pos == find(content_id, "-")
    IN  IF is_some(pos)
        THEN LET after == SubSeq(content_id, unwrap(pos) + 1, Len(content_id))
             IN  IF after # <<>> /\ all_ascii_digit(after)
                 THEN SubSeq(content_id, 1, unwrap(pos) - 1)
                 ELSE content_id
        ELSE content_id

strip_suffix(content_id) ==
    LET pos == rfind(content_id, "-")
    IN  IF is_some(pos)
        THEN LET after == SubSeq(content_id, unwrap(pos) + 1, Len(content_id))
             IN  IF after # <<>> /\ all_ascii_digit(after)
                 THEN SubSeq(content_id, 1, unwrap(pos) - 1)
                 ELSE content_id
        ELSE content_id

extract_depth_default_0(content_id) ==
    LET pos == rfind(content_id, "-")
    IN  IF is_some(pos)
        THEN LET after == SubSeq(content_id, unwrap(pos) + 1, Len(content_id))
             IN  IF after # <<>> /\ all_ascii_digit(after)
                 THEN unwrap_or(parse_u32(after), U32(0))
                 ELSE U32(1)
        ELSE U32(1)

extract_depth(content_id) ==
    LET pos == rfind(content_id, "-")
    IN  IF is_some(pos)
        THEN LET after == SubSeq(content_id, unwrap(pos) + 1, Len(content_id))
             IN  IF after # <<>> /\ all_ascii_digit(after)
                 THEN unwrap_or(parse_u32(after), U32(1))
                 ELSE U32(1)
        ELSE U32(1)

TocEntry(row) ==
    [title |-> row.title,
     match_id |-> strip_suffix(row.content_id),
     depth |-> extract_depth(row.content_id)]

----------------------------------------------------------------------------
\* Highlight formatting

\* str::lines: split at "\n", a "\r" in front of the "\n" dropped with it, and no
\* empty last line after a final "\n"
RECURSIVE lines(_)
lines(s) ==
    IF s = <<>> THEN <<>>
    ELSE LET nl == find(s, "\n")
         IN  IF is_some(nl)
             THEN LET line == SubSeq(s, 1, unwrap(nl) - 1)
                      cut == IF line # <<>> /\ line[Len(line)] = "\r"
                             THEN SubSeq(line, 1, Len(line) - 1) ELSE line
                  IN  <<cut>> \o lines(SubSeq(s, unwrap(nl) + 1, Len(s)))
             ELSE <<s>>

RECURSIVE quote_lines(_, _)
quote_lines(ls, p) ==
    IF p > Len(ls) THEN <<>>
    ELSE <<">", " ">> \o ls[p] \o <<"\n">> \o quote_lines(ls, p + 1)

format_highlight(h) ==
    LET quoted == quote_lines(lines(h.text), 1)
        note == IF is_some(h.annotation) /\ unwrap(h.annotation) # <<>>
                THEN <<"\n", "*", "*", "N", "o", "t", "e", ":", "*", "*", " ">>
                     \o unwrap(h.annotation) \o <<"\n">>
                ELSE <<>>
        date == IF is_some(h.date_created)
                THEN <<"\n", "*">> \o unwrap(h.date_created) \o <<"*", "\n">>
                ELSE <<>>
    IN  quoted \o note \o date

----------------------------------------------------------------------------
\* Highlight assignment.  A &Highlight is the position of the highlight in the
\* slice it borrows from.

EmptyMap == [k \in {} |-> k]

\* map.insert(k, v)
insert(map, k, v) == [j \in DOMAIN map \cup {k} |-> IF j = k THEN v ELSE map[j]]

\* map.entry(k).or_insert(v)
or_insert(map, k, v) == IF k \in DOMAIN map THEN map ELSE map @@ (k :> v)

\* map.insert(k, vec![x])
insert_single(map, k, x) == [j \in DOMAIN map \cup {k} |-> IF j = k THEN <<x>> ELSE map[j]]

\* map.entry(k).or_default().insert(0, x)
or_default_push_front(map, k, x) ==
    IF k \in DOMAIN map THEN [map EXCEPT ![k] = <<x>> \o @] ELSE map @@ (k :> <<x>>)

\* map.entry(k).or_default().push(x)
or_default_push(map, k, x) ==
    IF k \in DOMAIN map THEN [map EXCEPT ![k] = Append(@, x)] ELSE map @@ (k :> <<x>>)

\* map.get(k)
get(map, k) == IF k \in DOMAIN map THEN Some(map[k]) ELSE None

RECURSIVE build_match_index(_, _, _)
build_match_index(t, i, match_index) ==
    IF i > Len(t) THEN match_index
    ELSE build_match_index(t, i + 1, or_insert(match_index, t[i].match_id, i))

RECURSIVE assign_from(_, _, _, _, _)
assign_from(match_index, hs, p, asg, unc) ==
    IF p > Len(hs) THEN [assigned |-> asg, uncategorized |-> unc]
    ELSE LET idx == get(match_index, hs[p].chapter_content_id)
         IN  IF is_some(idx)
             THEN assign_from(match_index, hs, p + 1, or_default_push(asg, unwrap(idx), p), unc)
             ELSE assign_from(match_index, hs, p + 1, asg, Append(unc, p))

assign_highlights(t, hs) ==
    assign_from(build_match_index(t, 1, EmptyMap), hs, 1, EmptyMap, <<>>)

----------------------------------------------------------------------------
\* Ancestor closure

\* a walk that marks the nearest shallower entry only
RECURSIVE mark_parent_only(_, _, _, _)
mark_parent_only(t, j, need_depth, needed) ==
    IF j < 1 THEN needed
    ELSE IF U32Lt(t[j].depth, need_depth)
         THEN needed \cup {j}
         ELSE mark_parent_only(t, j - 1, need_depth, needed)

\* a walk that takes entries of the same depth too
RECURSIVE mark_not_deeper(_, _, _, _)
mark_not_deeper(t, j, need_depth, needed) ==
    IF j < 1 THEN needed
    ELSE IF U32Le(t[j].depth, need_depth)
         THEN IF U32Le(t[j].depth, U32(1))
              THEN needed \cup {j}
              ELSE mark_not_deeper(t, j - 1, t[j].depth, needed \cup {j})
         ELSE mark_not_deeper(t, j - 1, need_depth, needed)

\* the backward walk from position i: j runs from i-1 down to 1
RECURSIVE mark_ancestors(_, _, _, _)
mark_ancestors(t, j, need_depth, needed) ==
    IF j < 1 THEN needed
    ELSE IF U32Lt(t[j].depth, need_depth)
         THEN IF U32Le(t[j].depth, U32(1))
              THEN needed \cup {j}
              ELSE mark_ancestors(t, j - 1, t[j].depth, needed \cup {j})
         ELSE mark_ancestors(t, j - 1, need_depth, needed)

RECURSIVE compute_heading_needed(_, _, _, _)
compute_heading_needed(t, asg, i, needed) ==
    IF i > Len(t) THEN needed
    ELSE IF i \in DOMAIN asg
         THEN compute_heading_needed(t, asg, i + 1,
                  mark_ancestors(t, i - 1, t[i].depth, needed \cup {i}))
         ELSE compute_heading_needed(t, asg, i + 1, needed)

----------------------------------------------------------------------------
\* Rendering.  md is the sequence of the pushes made on the String: each element
\* has the pushed text, the statement that pushed it (src) and the position of
\* the TOC entry or highlight it was pushed for (ref, 0 when there is none).
\* The String itself is Flatten(md).

Push(text, src, ref) == [text |-> text, src |-> src, ref |-> ref]

RECURSIVE Flatten(_)
Flatten(chunks) ==
    IF chunks = <<>> THEN <<>> ELSE Head(chunks).text \o Flatten(Tail(chunks))

RECURSIVE push_highlights(_, _, _)
push_highlights(hs, refs, p) ==
    IF p > Len(refs) THEN <<>>
    ELSE <<Push(format_highlight(hs[refs[p]]), "highlight", refs[p]),
           Push(<<"\n">>, "blank", refs[p])>>
         \o push_highlights(hs, refs, p + 1)

header(b) ==
    <<Push(<<"#", " ">> \o b.title \o <<"\n", "\n">>, "title", 0)>>
    \o (IF is_some(b.author) /\ unwrap(b.author) # <<>>
        THEN <<Push(<<"*", "*", "A", "u", "t", "h", "o", "r", ":", "*", "*", " ">>
                    \o unwrap(b.author) \o <<"\n", "\n">>, "author", 0)>>
        ELSE <<>>)
    \o <<Push(<<"-", "-", "-", "\n", "\n">>, "rule", 0)>>

\* entry.depth + 1: with overflow checks (a debug build) the addition panics at
\* u32::MAX, without them (a release build) it wraps
depth_plus_1(depth, overflow_checks) ==
    IF depth = U32Max /\ overflow_checks THEN None ELSE Some(wrapping_add1(depth))

\* the walk over the TOC from position i on: the pushes made, and whether it panicked
RECURSIVE walk_toc(_, _, _, _, _, _)
walk_toc(t, hs, asg, needed, i, overflow_checks) ==
    IF i > Len(t) THEN [panicked |-> FALSE, out |-> <<>>]
    ELSE IF i \notin needed \/ t[i].title = <<>>
         THEN walk_toc(t, hs, asg, needed, i + 1, overflow_checks)
         ELSE LET level == depth_plus_1(t[i].depth, overflow_checks)
              IN  IF ~is_some(level) THEN [panicked |-> TRUE, out |-> <<>>]
                  ELSE LET hashes == repeat("#", as_usize(unwrap(level)))
                           here == <<Push(hashes \o <<" ">> \o t[i].title \o <<"\n", "\n">>,
                                          "heading", i)>>
                                   \o (IF i \in DOMAIN asg
                                       THEN push_highlights(hs, asg[i], 1) ELSE <<>>)
                           rest == walk_toc(t, hs, asg, needed, i + 1, overflow_checks)
                       IN  [panicked |-> rest.panicked, out |-> here \o rest.out]

uncategorized_section_always(hs, unc) ==
    <<Push(<<"#", "#", " ", "U", "n", "c", "a", "t", "e", "g", "o", "r", "i", "z", "e", "d",
             "\n", "\n">>, "uncategorized", 0)>>
    \o push_highlights(hs, unc, 1)

uncategorized_section(hs, unc) ==
    IF unc # <<>>
    THEN <<Push(<<"#", "#", " ", "U", "n", "c", "a", "t", "e", "g", "o", "r", "i", "z", "e", "d",
                  "\n", "\n">>, "uncategorized", 0)>>
         \o push_highlights(hs, unc, 1)
    ELSE <<>>

----------------------------------------------------------------------------
\* Inputs

SeqsUpTo(S, n) == UNION {[1..k -> S] : k \in 0..n}

Row(content_id, title) == [content_id |-> content_id, title |-> title]

Highlight(text, annotation, chapter_content_id, date_created) ==
    [text |-> text, annotation |-> annotation,
     chapter_content_id |-> chapter_content_id, date_created |-> date_created]

Book(title, author) == [content_id |-> <<"k">>, title |-> title, author |-> author]

\* Outline rows of a rendered book: depths 1, 2, 3 and 0, two rows sharing the match
\* key "a", and rows without a title.
RenderRows ==
    { Row(<<"a", "-", "1">>, <<"A">>),
      Row(<<"b", "-", "2">>, <<"B">>),
      Row(<<"c", "-", "3">>, <<"C">>),
      Row(<<"a", "-", "0">>, <<"Z">>),
      Row(<<"b", "-", "2">>, <<>>),
      Row(<<"c", "-", "3">>, <<>>) }

\* Highlights of a rendered book: located in "a", in "c", and at the raw identifier
\* "c-3", which is no match key.
RenderHighlights ==
    { Highlight(<<"t">>, None, <<"a">>, None),
      Highlight(<<"u", "\n", "v">>, Some(<<>>), <<"c">>, Some(<<"d">>)),
      Highlight(<<"w">>, Some(<<"n">>), <<"c", "-", "3">>, Some(<<>>)) }

Authors == {None, Some(<<>>), Some(<<"A">>)}

\* Identifiers of every shape: each prefix over IdChars followed by each tail.
\* A depth d is rendered as d + 1 heading markers, so the tails hold no depth
\* between 2^31 and 2^32 - 2, whose heading no machine and no model can hold.
IdChars == {"a", "-", "1"}
Prefixes == SeqsUpTo(IdChars, MaxPrefixLen)
Tails ==
    { <<>>,
      <<"-">>,
      <<"-", "0">>,
      <<"-", "1">>,
      <<"-", "2">>,
      <<"-", "1", "0">>,
      <<"-", "0", "0", "7">>,
      <<"-", "a">>,
      <<"-", "1", "a">>,
      <<"-", "U+0663">>,
      <<"-", "4", "2", "9", "4", "9", "6", "7", "2", "9", "5">>,
      <<"-", "4", "2", "9", "4", "9", "6", "7", "2", "9", "6">>,
      <<"-", "0", "4", "2", "9", "4", "9", "6", "7", "2", "9", "5">>,
      <<"-", "9", "9", "9", "9", "9", "9", "9", "9", "9", "9", "9">> }
Identifiers == {p \o t : p \in Prefixes, t \in Tails}

InitRun ==
    /\ toc = <<>>
    /\ assigned = EmptyMap
    /\ uncategorized = <<>>
    /\ heading_needed = {}
    /\ md = <<>>
    /\ pc = "query_toc"

\* a book with an outline of up to MaxToc rows and up to MaxHl highlights
InitRender ==
    /\ rows \in SeqsUpTo(RenderRows, MaxToc)
    /\ highlights \in SeqsUpTo(RenderHighlights, MaxHl)
    /\ book = Book(<<"T">>, Some(<<"A">>))
    /\ InitRun

\* a book with one outline row of any identifier, at most one highlight, and any author
InitIdentifier ==
    /\ rows \in {<<Row(id, <<"X">>)>> : id \in Identifiers}
    /\ highlights \in SeqsUpTo({Highlight(<<"t">>, None, k, None) : k \in Prefixes}, 1)
    /\ book \in {Book(<<"T">>, a) : a \in Authors}
    /\ InitRun

Init == InitRender \/ InitIdentifier

----------------------------------------------------------------------------
\* Actions

\* query_toc: every row becomes a TocEntry, in the order of the rows
query_toc ==
    /\ pc = "query_toc"
    /\ toc' = [i \in 1..Len(rows) |-> TocEntry(rows[i])]
    /\ pc' = "header"
    /\ UNCHANGED <<rows, book, highlights, assigned, uncategorized, heading_needed, md>>

\* generate_markdown, the header
gm_header ==
    /\ pc = "header"
    /\ md' = header(book)
    /\ pc' = "assign"
    /\ UNCHANGED <<rows, book, highlights, toc, assigned, uncategorized, heading_needed>>

\* generate_markdown, the call of assign_highlights
gm_assign ==
    /\ pc = "assign"
    /\ LET r == assign_highlights(toc, highlights)
       IN  /\ assigned' = r.assigned
           /\ uncategorized' = r.uncategorized
    /\ pc' = "heading_needed"
    /\ UNCHANGED <<rows, book, highlights, toc, heading_needed, md>>

\* generate_markdown, the loop that fills heading_needed
gm_heading_needed ==
    /\ pc = "heading_needed"
    /\ heading_needed' = compute_heading_needed(toc, assigned, 1, {})
    /\ pc' = "walk"
    /\ UNCHANGED <<rows, book, highlights, toc, assigned, uncategorized, md>>

\* generate_markdown, the walk over the TOC, in a build with or without overflow checks
gm_walk ==
    /\ pc = "walk"
    /\ \E overflow_checks \in BOOLEAN :
         LET w == walk_toc(toc, highlights, assigned, heading_needed, 1, overflow_checks)
         IN  IF w.panicked
             THEN md' = <<>> /\ pc' = "panicked"
             ELSE md' = md \o w.out /\ pc' = "uncategorized"
    /\ UNCHANGED <<rows, book, highlights, toc, assigned, uncategorized, heading_needed>>

\* generate_markdown, the Uncategorized section and the return
gm_uncategorized ==
    /\ pc = "uncategorized"
    /\ md' = md \o uncategorized_section(highlights, uncategorized)
    /\ pc' = "done"
    /\ UNCHANGED <<rows, book, highlights, toc, assigned, uncategorized, heading_needed>>

generate_markdown == gm_header \/ gm_assign \/ gm_heading_needed \/ gm_walk \/ gm_uncategorized

Next == query_toc \/ generate_markdown

Spec == Init /\ [][Next]_vars

----------------------------------------------------------------------------
\* Vocabulary of the properties

TocBuilt == pc # "query_toc"
Assigned == pc \in {"heading_needed", "walk", "uncategorized", "done", "panicked"}
ClosureBuilt == pc \in {"walk", "uncategorized", "done", "panicked"}
Returned == pc = "done"

\* the positions p at which the identifier ends in "-" and one or more ASCII digits
\* after p (at most one position: the digits hold no "-")
SuffixDash(id) ==
    {p \in 1..Len(id) - 1 : id[p] = "-" /\ \A q \in p + 1..Len(id) : id[q] \in AsciiDigits}
DigitRun(id) == LET p == CHOOSE p \in SuffixDash(id) : TRUE IN SubSeq(id, p + 1, Len(id))
PrefixOf(id) == LET p == CHOOSE p \in SuffixDash(id) : TRUE IN SubSeq(id, 1, p - 1)

\* a digit run without its leading zeros ("0" for a run of zeros)
RECURSIVE Canonical(_)
Canonical(d) == IF Len(d) > 1 /\ d[1] = "0" THEN Canonical(Tail(d)) ELSE d

DigitOf(n) == CHOOSE c \in AsciiDigits : to_digit(c) = n

\* the decimal numeral of a u32 <<hi, lo>>, by long division of the two halves by 10
RECURSIVE Decimal(_)
Decimal(v) ==
    LET t == (v[1] % 10) * Base + v[2]
        q == <<v[1] \div 10, t \div 10>>
    IN  IF q = <<0, 0>> THEN <<DigitOf(t % 10)>> ELSE Append(Decimal(q), DigitOf(t % 10))

\* whether a canonical numeral is at most u32::MAX = 4294967295
U32MaxNumeral == <<"4", "2", "9", "4", "9", "6", "7", "2", "9", "5">>
NumeralLe(a, b) ==
    \/ Len(a) < Len(b)
    \/ /\ Len(a) = Len(b)
       /\ \/ a = b
          \/ \E p \in 1..Len(a) :
               /\ to_digit(a[p]) < to_digit(b[p])
               /\ \A q \in 1..p - 1 : a[q] = b[q]
FitsU32(d) == NumeralLe(Canonical(d), U32MaxNumeral)

\* C5: the match key of every TOC entry is its identifier without the "-<digits>"
\* suffix when the text after the last "-" is one or more ASCII digits, and the
\* identifier itself otherwise.
C5_StripSuffix ==
    TocBuilt =>
        \A i \in 1..Len(rows) :
            LET id == rows[i].content_id
            IN  toc[i].match_id = IF SuffixDash(id) # {} THEN PrefixOf(id) ELSE id

\* C5, its case reached: an identifier with an earlier "-" and a digit suffix is
\* cut at its last "-" only.
C5_Witness ==
    /\ TocBuilt
    /\ \E i \in 1..Len(rows) :
         LET id == rows[i].content_id
         IN  /\ SuffixDash(id) # {}
             /\ \E q \in 1..Len(PrefixOf(id)) : id[q] = "-"
             /\ toc[i].match_id = PrefixOf(id)
             /\ Len(DigitRun(id)) > 1

\* C6 as stated: the depth of an identifier with a digit suffix is the integer value
\* of the digit run, whatever its length and value; without one it is 1.
C6_DepthIsDigitRun ==
    TocBuilt =>
        \A i \in 1..Len(rows) :
            LET id == rows[i].content_id
            IN  IF SuffixDash(id) # {}
                THEN Decimal(toc[i].depth) = Canonical(DigitRun(id))
                ELSE toc[i].depth = U32(1)

\* C6 as amended: the depth is the integer value of the digit run when that value
\* is at most 4294967295 (u32::MAX), and 1 when it is larger; without a digit
\* suffix it is 1.
C6_DepthIsDigitRunInU32 ==
    TocBuilt =>
        \A i \in 1..Len(rows) :
            LET id == rows[i].content_id
            IN  IF SuffixDash(id) # {}
                THEN IF FitsU32(DigitRun(id))
                     THEN Decimal(toc[i].depth) = Canonical(DigitRun(id))
                     ELSE toc[i].depth = U32(1)
                ELSE toc[i].depth = U32(1)

\* C6, its cases reached: a run of several digits read as its value, and a run
\* with leading zeros whose value is u32::MAX.
C6_Witness ==
    /\ TocBuilt
    /\ \E i \in 1..Len(rows) :
         /\ SuffixDash(rows[i].content_id) # {}
         /\ DigitRun(rows[i].content_id) = <<"0">> \o U32MaxNumeral
         /\ toc[i].depth = U32Max

\* C7: every TOC entry built by query_toc has depth >= 1.
C7_LevelAtLeastOne ==
    TocBuilt => \A i \in 1..Len(toc) : U32Le(U32(1), toc[i].depth)

\* C8: generate_markdown never aborts: no input makes it panic.
C8_RenderingIsTotal == pc # "panicked"

----------------------------------------------------------------------------
\* Vocabulary of the closure and of the document

Level(i) == toc[i].depth

\* positions with a directly assigned highlight
Direct == {i \in 1..Len(toc) : i \in DOMAIN assigned /\ assigned[i] # <<>>}

\* j is taken by the backward walk from i when its level is strictly smaller than
\* every level from j+1 to i: smaller than the smallest seen so far
Taken(i, j) == j < i /\ \A k \in j + 1..i : U32Lt(Level(j), Level(k))

\* the structural ancestors of i: the entries the walk takes until it has taken one
\* of level 1
Ancestors(i) ==
    {j \in 1..i - 1 :
        /\ Taken(i, j)
        /\ ~\E k \in j + 1..i - 1 : Taken(i, k) /\ Level(k) = U32(1)}

\* nearest earlier entry of a smaller level than i, if any
Shallower(i) == {j \in 1..i - 1 : U32Lt(Level(j), Level(i))}
Parent(i) == CHOOSE j \in Shallower(i) : \A k \in Shallower(i) : k <= j

\* the pushes of the document made by one statement
Pushes(src) == {m \in 1..Len(md) : md[m].src = src}
\* the positions whose heading the document holds
HeadingsOf(i) == {m \in Pushes("heading") : md[m].ref = i}

\* the number of heading markers of a heading line: the characters before its first " "
Markers(text) == unwrap(find(text, " ")) - 1

\* C1: heading_needed holds every position with a directly assigned highlight and
\* all of its structural ancestors, the whole chain up to level 1.
C1_ClosureComplete ==
    ClosureBuilt =>
        \A i \in Direct : i \in heading_needed /\ Ancestors(i) \subseteq heading_needed

\* C1, its case reached: an assigned entry with a chain of two ancestors, both in
\* heading_needed.
C1_Witness ==
    /\ Returned
    /\ \E i \in Direct :
         /\ Cardinality(Ancestors(i)) >= 2
         /\ Ancestors(i) \cap Direct = {}
         /\ Ancestors(i) \subseteq heading_needed

\* C2: a position is in heading_needed, and its heading is in the document, only if
\* it has a directly assigned highlight or is a structural ancestor of one that has.
C2_ClosureMinimal ==
    LET allowed == Direct \cup UNION {Ancestors(i) : i \in Direct}
    IN  /\ ClosureBuilt => heading_needed \subseteq allowed
        /\ Returned => \A m \in Pushes("heading") : md[m].ref \in allowed

\* C2, its case reached: a document with the heading of an assigned entry, and an
\* outline with a later entry of the same level and a later entry of another level
\* that get none.
C2_Witness ==
    /\ Returned
    /\ \E i \in Direct, j, k \in 1..Len(toc) :
         /\ i < j /\ i < k
         /\ Level(j) = Level(i) /\ Level(k) # Level(i)
         /\ j \notin heading_needed /\ k \notin heading_needed
         /\ HeadingsOf(i) # {} /\ HeadingsOf(j) = {} /\ HeadingsOf(k) = {}

\* C3 as stated: when the document holds the heading of an entry of level L > 1 and an
\* earlier entry has a smaller level, it holds the heading of the nearest such entry,
\* before it.
C3_NoOrphanHeading ==
    Returned =>
        \A m \in Pushes("heading") :
            LET i == md[m].ref
            IN  (U32Lt(U32(1), Level(i)) /\ Shallower(i) # {})
                    => \E n \in HeadingsOf(Parent(i)) : n < m

\* C3 as amended: the same, when the nearest earlier entry of a smaller level has a
\* title; an entry without a title is given no heading.
C3_NoOrphanHeadingOfTitled ==
    Returned =>
        \A m \in Pushes("heading") :
            LET i == md[m].ref
            IN  (U32Lt(U32(1), Level(i)) /\ Shallower(i) # {} /\ toc[Parent(i)].title # <<>>)
                    => \E n \in HeadingsOf(Parent(i)) : n < m

\* C3, its case reached: the heading of an entry that is only an ancestor, of level
\* above 1, comes after the heading of its own parent, which has no highlight either.
C3_Witness ==
    /\ Returned
    /\ \E m \in Pushes("heading") :
         LET i == md[m].ref
         IN  /\ i \notin Direct
             /\ U32Lt(U32(1), Level(i))
             /\ Shallower(i) # {}
             /\ Parent(i) \notin Direct
             /\ \E n \in HeadingsOf(Parent(i)) : n < m

\* the number of places a highlight is put in: bucket positions and positions of
\* the unassigned list
Places(p) ==
    Cardinality({<<i, q>> \in (DOMAIN assigned) \X (1..Len(highlights)) :
                    q <= Len(assigned[i]) /\ assigned[i][q] = p})
    + Cardinality({q \in 1..Len(uncategorized) : uncategorized[q] = p})

RECURSIVE SumLen(_, _)
SumLen(map, keys) ==
    IF keys = {} THEN 0
    ELSE LET k == CHOOSE k \in keys : TRUE IN Len(map[k]) + SumLen(map, keys \ {k})

\* C4: assign_highlights puts every highlight in exactly one place, a bucket or the
\* unassigned list, and the lengths add up to the number of highlights.
C4_AssignmentTotal ==
    Assigned =>
        /\ \A p \in 1..Len(highlights) : Places(p) = 1
        /\ SumLen(assigned, DOMAIN assigned) + Len(uncategorized) = Len(highlights)

\* C4, its case reached: two highlights in one bucket.
C4_Witness ==
    /\ Returned
    /\ Len(highlights) >= 2
    /\ \E i \in DOMAIN assigned : Len(assigned[i]) >= 2

\* C9: the heading of an entry of level L is L + 1 markers, a space and the title,
\* and no entry heading has the single marker of the document title.
C9_HeadingWeight ==
    Returned =>
        \A m \in Pushes("heading") :
            LET i == md[m].ref
                n == Markers(md[m].text)
            IN  /\ n >= 2
                /\ U32(n - 1) = Level(i)
                /\ md[m].text = repeat("#", n) \o <<" ">> \o toc[i].title \o <<"\n", "\n">>

\* highlights whose location key is the match key of no entry
Unmatched ==
    {p \in 1..Len(highlights) :
        \A i \in 1..Len(toc) : toc[i].match_id # highlights[p].chapter_content_id}

\* the highlights pushed after position m of the document, in the order of the pushes
RECURSIVE HighlightsAfter(_)
HighlightsAfter(m) ==
    IF m >= Len(md) THEN <<>>
    ELSE (IF md[m + 1].src = "highlight" THEN <<md[m + 1].ref>> ELSE <<>>)
         \o HighlightsAfter(m + 1)

\* the elements of a set of positions in increasing order
RECURSIVE Ascending(_)
Ascending(S) ==
    IF S = {} THEN <<>>
    ELSE LET lo == CHOOSE x \in S : \A y \in S : x <= y IN <<lo>> \o Ascending(S \ {lo})

\* C10: the document holds the "## Uncategorized" heading exactly when some highlight
\* matches no entry; then it holds it once, after every entry heading and every
\* highlight of an entry, followed by the unmatched highlights in input order.
C10_UncategorizedTail ==
    Returned =>
        /\ Pushes("uncategorized") # {} <=> Unmatched # {}
        /\ Cardinality(Pushes("uncategorized")) <= 1
        /\ \A m \in Pushes("uncategorized") :
             /\ md[m].text = <<"#", "#", " ", "U", "n", "c", "a", "t", "e", "g", "o", "r",
                               "i", "z", "e", "d", "\n", "\n">>
             /\ \A n \in Pushes("heading") : n < m
             /\ \A n \in Pushes("highlight") : md[n].ref \notin Unmatched => n < m
             /\ HighlightsAfter(m) = Ascending(Unmatched)
             /\ \A n \in Pushes("highlight") :
                    n > m => md[n].text = format_highlight(highlights[md[n].ref])

\* C10, its case reached: a document with an entry heading, a highlight under it, and
\* an Uncategorized section with a highlight.
C10_Witness ==
    /\ Returned
    /\ Pushes("heading") # {}
    /\ \E m \in Pushes("uncategorized") : Len(HighlightsAfter(m)) >= 1
    /\ \E n \in Pushes("highlight") : md[n].ref \notin Unmatched

----------------------------------------------------------------------------
\* Empty fields

\* an optional field that is present and not empty
Filled(o) == is_some(o) /\ unwrap(o) # <<>>

\* the body of a highlight whose empty fields are left out: the quoted lines, the
\* "Note:" paragraph of a note that is not empty, the italic paragraph of a date
\* that is not empty
BodyWithoutEmptyFields(h) ==
    quote_lines(lines(h.text), 1)
    \o (IF Filled(h.annotation)
        THEN <<"\n", "*", "*", "N", "o", "t", "e", ":", "*", "*", " ">>
             \o unwrap(h.annotation) \o <<"\n">>
        ELSE <<>>)
    \o (IF Filled(h.date_created)
        THEN <<"\n", "*">> \o unwrap(h.date_created) \o <<"*", "\n">>
        ELSE <<>>)

\* C11: a field that is present but empty leaves nothing in the document: no author
\* line for an empty author, no "Note:" paragraph for an empty note, no italic
\* paragraph for an empty created_at, no heading for an empty title.
C11_EmptyFieldsOmitted ==
    Returned =>
        /\ ~Filled(book.author) => Pushes("author") = {}
        /\ \A i \in 1..Len(toc) : toc[i].title = <<>> => HeadingsOf(i) = {}
        /\ \A m \in Pushes("highlight") :
               md[m].text = BodyWithoutEmptyFields(highlights[md[m].ref])

----------------------------------------------------------------------------
\* Highlights in the document

\* the pushes of the body of highlight p
BodiesOf(p) == {m \in Pushes("highlight") : md[m].ref = p}

\* the last heading pushed before position m of the document, 0 when there is none
SectionOf(m) ==
    LET before == {n \in 1..m - 1 : md[n].src \in {"heading", "uncategorized"}}
    IN  IF before = {} THEN 0 ELSE CHOOSE n \in before : \A k \in before : k <= n

\* C13: the document holds the formatted body of every highlight exactly once, under
\* the heading of the entry it is assigned to or in the Uncategorized section.
C13_EveryHighlightEmitted ==
    Returned =>
        \A p \in 1..Len(highlights) :
            /\ Cardinality(BodiesOf(p)) = 1
            /\ \A m \in BodiesOf(p) :
                 /\ md[m].text = format_highlight(highlights[p])
                 /\ SectionOf(m) # 0
                 /\ IF p \in Unmatched
                    THEN md[SectionOf(m)].src = "uncategorized"
                    ELSE /\ md[SectionOf(m)].src = "heading"
                         /\ p \in {assigned[md[SectionOf(m)].ref][q] :
                                     q \in 1..Len(assigned[md[SectionOf(m)].ref])}

----------------------------------------------------------------------------
\* Matching and order

\* the entries whose match key is the location key of highlight p, taken verbatim
Matching(p) ==
    {i \in 1..Len(toc) : toc[i].match_id = highlights[p].chapter_content_id}

\* the highlights held by a list of references
Held(refs) == {refs[q] : q \in 1..Len(refs)}

\* C14: a highlight is in the bucket of entry i exactly when i is the first entry
\* whose match key equals its location key as it stands, and in the unassigned list
\* exactly when no match key equals it.
C14_FirstExactMatch ==
    Assigned =>
        \A p \in 1..Len(highlights) :
            /\ \A i \in 1..Len(toc) :
                 (i \in DOMAIN assigned /\ p \in Held(assigned[i]))
                     <=> (i \in Matching(p) /\ \A j \in Matching(p) : i <= j)
            /\ p \in Held(uncategorized) <=> Matching(p) = {}

\* C14, its cases reached: two entries share a match key and the highlight is with
\* the first, the second has none; and a highlight whose key would match an entry
\* only with its suffix stripped is unassigned.
C14_Witness ==
    /\ Returned
    /\ \E p \in 1..Len(highlights), i, j \in 1..Len(toc) :
         /\ i < j
         /\ {i, j} \subseteq Matching(p)
         /\ p \in Held(assigned[i])
         /\ j \notin DOMAIN assigned
    /\ \E p \in 1..Len(highlights), i \in 1..Len(toc) :
         /\ strip_suffix(highlights[p].chapter_content_id) = toc[i].match_id
         /\ Matching(p) = {}
         /\ p \in Held(uncategorized)

\* whether a list of references is in input order
InInputOrder(refs) == \A q, r \in 1..Len(refs) : q < r => refs[q] < refs[r]

\* C15: two highlights of one bucket, or of the unassigned list, are there in input
\* order, and their bodies are in the document in that order.
C15_ArrivalOrder ==
    /\ Assigned =>
         /\ \A i \in DOMAIN assigned : InInputOrder(assigned[i])
         /\ InInputOrder(uncategorized)
    /\ Returned =>
         \A a, b \in 1..Len(highlights) :
             (/\ a < b
              /\ \/ \E i \in DOMAIN assigned : {a, b} \subseteq Held(assigned[i])
                 \/ {a, b} \subseteq Held(uncategorized))
                 => \A m \in BodiesOf(a), n \in BodiesOf(b) : m < n

\* C15, its case reached: two highlights of one bucket and their two bodies, in
\* input order, under the heading of their entry.
C15_Witness ==
    /\ Returned
    /\ \E a, b \in 1..Len(highlights), i \in DOMAIN assigned :
         /\ a < b
         /\ {a, b} \subseteq Held(assigned[i])
         /\ \E m \in BodiesOf(a), n \in BodiesOf(b) : m < n /\ SectionOf(m) \in HeadingsOf(i)

====
